---- MODULE Spec2Model ----
(***************************************************************************)
(* Fitness-class booking service: the SQLite store (databases_sql.py), the *)
(* JSON booking log and the /book handler (main.py), and the seeding       *)
(* script (seed_data.py).                                                  *)
(*                                                                         *)
(* Time is counted in half hours since an epoch day 0, 00:00 UTC, so that  *)
(* the +05:30 offset of Asia/Kolkata is a whole number of units.           *)
(***************************************************************************)
EXTENDS Integers, Sequences, FiniteSets, TLC

VARIABLES
    classes,      \* table classes of booking.db, in rowid order
    bookingsTbl,  \* table bookings of booking.db (committed rows), in rowid order
    file,         \* bookings.json: [kind, data, len]
    now,          \* the wall clock (UTC instant)
    bk,           \* per request thread: the locals of book_class
    st,           \* per store thread: the locals and the lock of create_booking
    resp,         \* per thread: the last response it produced
    acked,        \* history: the records book_class answered "Booking successful!" for
    nreq,         \* number of requests started so far
    out           \* the result of the last read-only call (sequential specification)

vars == <<classes, bookingsTbl, file, now, bk, st, resp, acked, nreq, out>>

----------------------------------------------------------------------------
(* Bounds of the model *)

MaxRequests == 2
MaxNow == 2
MaxClasses == 4
MaxSeqCalls == 3

(* Program constants *)

IstOffset == 11
SeedCapacity == 15

HalfHoursPerDay == 24 * 2

----------------------------------------------------------------------------
(* Generic helpers *)

Range(s) == {s[i] : i \in 1..Len(s)}

CountIn(s, P(_)) == Cardinality({i \in 1..Len(s) : P(s[i])})

----------------------------------------------------------------------------
(* Timestamps.  datetime.isoformat() writes fixed-width fields, most         *)
(* significant first; the model keeps day (2 digits), hour (2 digits) and    *)
(* the tens digit of the minute.                                             *)

IsoFormat(t) ==
    LET d == t \div HalfHoursPerDay
        h == (t % HalfHoursPerDay) \div 2
        m == (t % 2) * 3
    IN  <<d \div 10, d % 10, h \div 10, h % 10, m>>

FromIsoFormat(s) ==
    (s[1] * 10 + s[2]) * HalfHoursPerDay + (s[3] * 10 + s[4]) * 2 + (s[5] \div 3)

\* TEXT comparison of SQLite (BINARY collation): bytewise, left to right
TextLess(a, b) ==
    \E i \in 1..Len(a) :
        /\ i <= Len(b)
        /\ \A j \in 1..(i - 1) : a[j] = b[j]
        /\ a[i] < b[i]

----------------------------------------------------------------------------
(* E-mail addresses are sequences of characters; str.lower() maps each.      *)

LowerChar(c) ==
    CASE c = "X" -> "x"
      [] c = "Y" -> "y"
      [] OTHER -> c

Lower(s) == [i \in 1..Len(s) |-> LowerChar(s[i])]

Emails == { <<"X", "@", "Y">>, <<"x", "@", "y">>, <<"b", "o", "@", "z">> }
Names == { "Al" }

BThreads == {"b1", "b2"}   \* worker threads serving POST /book
SThreads == {"s1", "s2"}   \* callers of create_booking, one connection each
Threads == BThreads \cup SThreads

NoSuchId == 9
ClassIds == {1, 2, NoSuchId}

----------------------------------------------------------------------------
(* Table classes (databases_sql.py)                                          *)

ClassRow(id, name, start_utc, capacity) ==
    [id |-> id, name |-> name, instructor |-> "Instructor",
     start_utc |-> start_utc, capacity |-> capacity]

NoClass == ClassRow(0, "", <<>>, 0)

\* INSERT INTO classes ...: AUTOINCREMENT rowid, rows are never deleted
insert_class(cs, name, start_utc, capacity) ==
    Append(cs, ClassRow(Len(cs) + 1, name, start_utc, capacity))

\* as get_class, with the WHERE clause lost: fetchone gives the first row
get_class_first_row(cs, class_id) ==
    IF \E i \in 1..Len(cs) : cs[i].id = class_id
    THEN cs[CHOOSE i \in 1..Len(cs) : cs[i].id = class_id]
    ELSE IF cs # <<>> THEN cs[1] ELSE ClassRow(0, "", <<>>, 0)

\* SELECT * FROM classes WHERE id = ?  (fetchone, None when there is no row)
get_class(cs, class_id) ==
    IF \E i \in 1..Len(cs) : cs[i].id = class_id
    THEN cs[CHOOSE i \in 1..Len(cs) : cs[i].id = class_id]
    ELSE NoClass

\* `if not cls` / `if not row`
ClassMissing(cls) == cls = NoClass

\* as OrderByLess, with the ORDER BY clause lost: rowid order
OrderByRowid(a, b) == a.id < b.id

\* the sort key of ORDER BY start_utc: TEXT comparison; rows with equal keys
\* stay in rowid order
OrderByLess(a, b) ==
    \/ TextLess(a.start_utc, b.start_utc)
    \/ (a.start_utc = b.start_utc /\ a.id < b.id)

RECURSIVE SortRows(_)
SortRows(S) ==
    IF S = {} THEN <<>>
    ELSE LET m == CHOOSE x \in S : \A y \in S \ {x} : OrderByLess(x, y)
         IN  <<m>> \o SortRows(S \ {m})

\* SELECT * FROM classes ORDER BY start_utc
list_classes(cs) == SortRows(Range(cs))

----------------------------------------------------------------------------
(* bookings.json (main.py, _load_bookings / _save_bookings)                  *)

BookingRecord(req, booked_at) ==
    [class_id |-> req.class_id, name |-> req.name, email |-> req.email,
     booked_at |-> booked_at]

\* length in bytes of json.dump(bookings, indent=4): the brackets, and per
\* record its fixed layout plus the two strings of varying length
RECURSIVE JsonLen(_)
JsonLen(d) ==
    IF d = <<>> THEN 2
    ELSE 100 + Len(Head(d).name) + Len(Head(d).email) + JsonLen(Tail(d))

AbsentFile == [kind |-> "absent", data |-> <<>>, len |-> 0]
JsonFile(d) == [kind |-> "json", data |-> d, len |-> JsonLen(d)]
GarbageFile(n) == [kind |-> "garbage", data |-> <<>>, len |-> n]

\* json.load raises JSONDecodeError on an empty or malformed file
LoadFails(f) == f.kind = "garbage"

\* _load_bookings: [] when the file does not exist
load_bookings(f) == IF f.kind = "json" THEN f.data ELSE <<>>

\* open(DATA_FILE, "w"): creates or truncates; the file is empty until the dump
OpenTruncate(f) == GarbageFile(0)

\* json.dump + close: one write at offset 0 of the writer's own descriptor.
\* Bytes another writer put beyond the end of this payload stay in the file.
DumpAndClose(f, d) ==
    IF f.len <= JsonLen(d) THEN JsonFile(d) ELSE GarbageFile(f.len)

save_bookings(f, d) == DumpAndClose(OpenTruncate(f), d)

----------------------------------------------------------------------------
(* book_class (main.py)                                                      *)

NoReq == [class_id |-> 0, name |-> "", email |-> <<>>]
Requests == [class_id : ClassIds, name : Names, email : Emails]

\* as IsPast, with the check on the start time left out
IsPastUnchecked(cls, now_utc) == FALSE

\* class_start < now_utc, the start parsed from its ISO text
IsPast(cls, now_utc) == FromIsoFormat(cls.start_utc) < now_utc

booked_count(bookings, class_id) ==
    CountIn(bookings, LAMBDA b : b.class_id = class_id)

IsFull(cls, bookings, class_id) ==
    booked_count(bookings, class_id) >= cls.capacity

IdleBk == [pc |-> "idle", req |-> NoReq, cls |-> NoClass, now_utc |-> 0,
           bookings |-> <<>>, available_slots |-> 0]

\* what a caller got back: the class it asked for, the outcome, the value returned
Resp(class_id, status, n) == [class_id |-> class_id, status |-> status, value |-> n]
NoResp == Resp(0, "none", 0)

\* a request arrives at POST /book (pydantic has validated it)
BRequest(t, req) ==
    /\ bk[t].pc = "idle"
    /\ nreq < MaxRequests
    /\ nreq' = nreq + 1
    /\ bk' = [bk EXCEPT ![t] = [IdleBk EXCEPT !.pc = "start", !.req = req]]
    /\ resp' = [resp EXCEPT ![t] = NoResp]
    /\ UNCHANGED <<classes, bookingsTbl, file, now, st, acked, out>>

\* get_class, then the comparison of the class start with datetime.now
BStart(t) ==
    /\ bk[t].pc = "start"
    /\ LET cls == get_class(classes, bk[t].req.class_id)
       IN  IF ClassMissing(cls)
           THEN /\ bk' = [bk EXCEPT ![t] = IdleBk]
                /\ resp' = [resp EXCEPT ![t] = Resp(bk[t].req.class_id, "404", 0)]
           ELSE IF IsPast(cls, now)
           THEN /\ bk' = [bk EXCEPT ![t] = IdleBk]
                /\ resp' = [resp EXCEPT ![t] = Resp(bk[t].req.class_id, "400", 0)]
           ELSE /\ bk' = [bk EXCEPT ![t].pc = "load", ![t].cls = cls,
                                    ![t].now_utc = now]
                /\ UNCHANGED resp
    /\ UNCHANGED <<classes, bookingsTbl, file, now, st, acked, nreq, out>>

\* _load_bookings, the capacity check and the append to the local list
BLoad(t) ==
    /\ bk[t].pc = "load"
    /\ IF LoadFails(file)
       THEN /\ bk' = [bk EXCEPT ![t] = IdleBk]
            /\ resp' = [resp EXCEPT ![t] = Resp(bk[t].req.class_id, "500", 0)]
       ELSE LET bookings == load_bookings(file)
                req == bk[t].req
            IN  IF IsFull(bk[t].cls, bookings, req.class_id)
                THEN /\ bk' = [bk EXCEPT ![t] = IdleBk]
                     /\ resp' = [resp EXCEPT ![t] = Resp(bk[t].req.class_id, "409", 0)]
                ELSE /\ bk' = [bk EXCEPT
                            ![t].pc = "open",
                            ![t].bookings =
                                Append(bookings,
                                       BookingRecord(req, IsoFormat(bk[t].now_utc))),
                            ![t].available_slots =
                                bk[t].cls.capacity
                                - booked_count(bookings, req.class_id) - 1]
                     /\ UNCHANGED resp
    /\ UNCHANGED <<classes, bookingsTbl, file, now, st, acked, nreq, out>>

\* _save_bookings, first half: open(DATA_FILE, "w")
BOpen(t) ==
    /\ bk[t].pc = "open"
    /\ file' = OpenTruncate(file)
    /\ bk' = [bk EXCEPT ![t].pc = "dump"]
    /\ UNCHANGED <<classes, bookingsTbl, now, st, resp, acked, nreq, out>>

\* _save_bookings, second half: json.dump and close; then the 200 response
BDump(t) ==
    /\ bk[t].pc = "dump"
    /\ file' = DumpAndClose(file, bk[t].bookings)
    /\ resp' = [resp EXCEPT ![t] = Resp(bk[t].req.class_id, "200", bk[t].available_slots)]
    /\ acked' = Append(acked, bk[t].bookings[Len(bk[t].bookings)])
    /\ bk' = [bk EXCEPT ![t] = IdleBk]
    /\ UNCHANGED <<classes, bookingsTbl, now, st, nreq, out>>

\* the clock advances
Tick ==
    /\ now < MaxNow
    /\ now' = now + 1
    /\ UNCHANGED <<classes, bookingsTbl, file, bk, st, resp, acked, nreq, out>>

----------------------------------------------------------------------------
(* create_booking (databases_sql.py) on SQLite's rollback-journal locks:     *)
(* a connection holds none, SHARED (reading), RESERVED (has written) or      *)
(* PENDING (waiting to commit) on booking.db.                                *)

NoArgs == [class_id |-> 0, name |-> "", email |-> <<>>, booked_at_utc |-> <<>>]

IdleSt == [pc |-> "idle", args |-> NoArgs, capacity |-> 0, lock |-> "none",
           booking_id |-> 0]

BookingRow(id, a) ==
    [id |-> id, class_id |-> a.class_id, name |-> a.name, email |-> a.email,
     booked_at_utc |-> a.booked_at_utc]

rows_for_class(tbl, class_id) ==
    CountIn(tbl, LAMBDA b : b.class_id = class_id)

\* as InTransaction, without the BEGIN: every SELECT is its own transaction
NotInTransaction == FALSE

\* cur.execute("BEGIN"): the connection keeps its read lock until commit or
\* rollback instead of dropping it after each statement
InTransaction == TRUE

LockAfterSelect == IF InTransaction THEN "shared" ELSE "none"

OthersHold(t, locks) == \E u \in SThreads \ {t} : st[u].lock \in locks

SRequest(t, a) ==
    /\ st[t].pc = "idle"
    /\ nreq < MaxRequests
    /\ nreq' = nreq + 1
    /\ st' = [st EXCEPT ![t] = [IdleSt EXCEPT !.pc = "select_class", !.args = a]]
    /\ resp' = [resp EXCEPT ![t] = NoResp]
    /\ UNCHANGED <<classes, bookingsTbl, file, now, bk, acked, out>>

\* BEGIN; SELECT capacity FROM classes WHERE id = ?
\* While a writer is PENDING no SHARED lock is granted: the SELECT is served
\* once the writer is through, or fails with "database is locked" when the
\* busy timeout runs out first.
SSelectClass(t) ==
    /\ st[t].pc = "select_class"
    /\ LET row == get_class(classes, st[t].args.class_id)
       IN  IF OthersHold(t, {"pending"})
           THEN /\ st' = [st EXCEPT ![t] = IdleSt]
                /\ resp' = [resp EXCEPT ![t] = Resp(st[t].args.class_id, "OperationalError", 0)]
           ELSE IF ClassMissing(row)
           THEN /\ st' = [st EXCEPT ![t] = IdleSt]
                /\ resp' = [resp EXCEPT ![t] = Resp(st[t].args.class_id, "ValueError", 0)]
           ELSE /\ st' = [st EXCEPT ![t].pc = "select_count",
                                    ![t].capacity = row.capacity,
                                    ![t].lock = LockAfterSelect]
                /\ UNCHANGED resp
    /\ UNCHANGED <<classes, bookingsTbl, file, now, bk, acked, nreq, out>>

\* SELECT COUNT(*) FROM bookings WHERE class_id = ?
SSelectCount(t) ==
    /\ st[t].pc = "select_count"
    /\ st[t].lock # "none" \/ ~OthersHold(t, {"pending"})
    /\ IF rows_for_class(bookingsTbl, st[t].args.class_id) >= st[t].capacity
       THEN /\ st' = [st EXCEPT ![t] = IdleSt]
            /\ resp' = [resp EXCEPT ![t] = Resp(st[t].args.class_id, "OverflowError", 0)]
       ELSE /\ st' = [st EXCEPT ![t].pc = "insert", ![t].lock = LockAfterSelect]
            /\ UNCHANGED resp
    /\ UNCHANGED <<classes, bookingsTbl, file, now, bk, acked, nreq, out>>

\* INSERT INTO bookings ...: needs the RESERVED lock; when another connection
\* has it, SQLite answers SQLITE_BUSY ("database is locked"), the exception
\* leaves the function and closing(conn) drops the connection
SInsert(t) ==
    /\ st[t].pc = "insert"
    /\ IF OthersHold(t, {"reserved", "pending"})
       THEN /\ st' = [st EXCEPT ![t] = IdleSt]
            /\ resp' = [resp EXCEPT ![t] = Resp(st[t].args.class_id, "OperationalError", 0)]
       ELSE /\ st' = [st EXCEPT ![t].pc = "commit", ![t].lock = "reserved",
                                ![t].booking_id = Len(bookingsTbl) + 1]
            /\ UNCHANGED resp
    /\ UNCHANGED <<classes, bookingsTbl, file, now, bk, acked, nreq, out>>

\* conn.commit() while readers remain: the writer takes PENDING and waits
SCommitWait(t) ==
    /\ st[t].pc = "commit"
    /\ st[t].lock = "reserved"
    /\ OthersHold(t, {"shared"})
    /\ st' = [st EXCEPT ![t].lock = "pending"]
    /\ UNCHANGED <<classes, bookingsTbl, file, now, bk, resp, acked, nreq, out>>

\* conn.commit() gives up after the busy timeout: the row is rolled back
SCommitTimeout(t) ==
    /\ st[t].pc = "commit"
    /\ st[t].lock = "pending"
    /\ OthersHold(t, {"shared"})
    /\ st' = [st EXCEPT ![t] = IdleSt]
    /\ resp' = [resp EXCEPT ![t] = Resp(st[t].args.class_id, "OperationalError", 0)]
    /\ UNCHANGED <<classes, bookingsTbl, file, now, bk, acked, nreq, out>>

\* conn.commit() succeeds once no other connection reads; return booking_id
SCommit(t) ==
    /\ st[t].pc = "commit"
    /\ ~OthersHold(t, {"shared", "reserved", "pending"})
    /\ bookingsTbl' = Append(bookingsTbl, BookingRow(st[t].booking_id, st[t].args))
    /\ st' = [st EXCEPT ![t] = IdleSt]
    /\ resp' = [resp EXCEPT ![t] = Resp(st[t].args.class_id, "ok", st[t].booking_id)]
    /\ UNCHANGED <<classes, file, now, bk, acked, nreq, out>>

----------------------------------------------------------------------------
(* The service under concurrent requests, two classes in the store           *)

StartA == 1
StartB == 5

Out(op, arg, status, rows) ==
    [op |-> op, arg |-> arg, status |-> status, rows |-> rows]

NoOut == Out("none", <<>>, "none", <<>>)

Init ==
    /\ classes = insert_class(insert_class(<<>>, "Yoga", IsoFormat(StartA), 1),
                              "Zumba", IsoFormat(StartB), 2)
    /\ bookingsTbl = <<>>
    /\ file = AbsentFile
    /\ now = 0
    /\ bk = [t \in BThreads |-> IdleBk]
    /\ st = [t \in SThreads |-> IdleSt]
    /\ resp = [t \in Threads |-> NoResp]
    /\ acked = <<>>
    /\ nreq = 0
    /\ out = NoOut

StoreArgs ==
    {[class_id |-> r.class_id, name |-> r.name, email |-> r.email,
      booked_at_utc |-> IsoFormat(now)] : r \in Requests}

NextBook ==
    \/ \E t \in BThreads, req \in Requests : BRequest(t, req)
    \/ \E t \in BThreads : BStart(t)
    \/ \E t \in BThreads : BLoad(t)
    \/ \E t \in BThreads : BOpen(t)
    \/ \E t \in BThreads : BDump(t)
    \/ Tick

Spec == Init /\ [][NextBook]_vars

NextStore ==
    \/ \E t \in SThreads, a \in StoreArgs : SRequest(t, a)
    \/ \E t \in SThreads : SSelectClass(t)
    \/ \E t \in SThreads : SSelectCount(t)
    \/ \E t \in SThreads : SInsert(t)
    \/ \E t \in SThreads : SCommitWait(t)
    \/ \E t \in SThreads : SCommitTimeout(t)
    \/ \E t \in SThreads : SCommit(t)
    \/ Tick

SpecStore == Init /\ [][NextStore]_vars

----------------------------------------------------------------------------
(* The handlers one call at a time: each action is a whole call              *)

\* book_class from the request to the response: [status, value, file, acked]
book_class(cs, f, now_utc, req) ==
    LET cls == get_class(cs, req.class_id)
        bookings == load_bookings(f)
        rec == BookingRecord(req, IsoFormat(now_utc))
    IN  IF ClassMissing(cls) THEN [status |-> "404", value |-> 0, file |-> f]
        ELSE IF IsPast(cls, now_utc) THEN [status |-> "400", value |-> 0, file |-> f]
        ELSE IF LoadFails(f) THEN [status |-> "500", value |-> 0, file |-> f]
        ELSE IF IsFull(cls, bookings, req.class_id)
        THEN [status |-> "409", value |-> 0, file |-> f]
        ELSE [status |-> "200",
              value |-> cls.capacity - booked_count(bookings, req.class_id) - 1,
              file |-> save_bookings(f, Append(bookings, rec))]

BookClass(req) ==
    /\ nreq < MaxSeqCalls
    /\ nreq' = nreq + 1
    /\ LET r == book_class(classes, file, now, req)
       IN  /\ file' = r.file
           /\ out' = Out("book_class", req, r.status, <<r.value>>)
           /\ acked' = IF r.status = "200"
                       THEN Append(acked, BookingRecord(req, IsoFormat(now)))
                       ELSE acked
    /\ UNCHANGED <<classes, bookingsTbl, now, bk, st, resp>>

\* create_booking with no other connection open: [status, value, tbl]
create_booking(cs, tbl, a) ==
    LET row == get_class(cs, a.class_id)
    IN  IF ClassMissing(row) THEN [status |-> "ValueError", value |-> 0, tbl |-> tbl]
        ELSE IF rows_for_class(tbl, a.class_id) >= row.capacity
        THEN [status |-> "OverflowError", value |-> 0, tbl |-> tbl]
        ELSE [status |-> "ok", value |-> Len(tbl) + 1,
              tbl |-> Append(tbl, BookingRow(Len(tbl) + 1, a))]

CreateBooking(a) ==
    /\ nreq < MaxSeqCalls
    /\ nreq' = nreq + 1
    /\ LET r == create_booking(classes, bookingsTbl, a)
       IN  /\ bookingsTbl' = r.tbl
           /\ out' = Out("create_booking", a, r.status, <<r.value>>)
    /\ UNCHANGED <<classes, file, now, bk, st, resp, acked>>

\* b["email"].lower() == email.lower()
EmailMatches(stored, email) == Lower(stored) = Lower(email)

\* get_bookings_api: the records of bookings.json for an e-mail, each with
\* the name of its class
get_bookings_api(cs, f, email) ==
    LET bookings == SelectSeq(load_bookings(f),
                              LAMBDA b : EmailMatches(b.email, email))
    IN  [i \in 1..Len(bookings) |->
            [id |-> 0,
             class_id |-> bookings[i].class_id,
             class_name |-> get_class(cs, bookings[i].class_id).name,
             name |-> bookings[i].name,
             email |-> bookings[i].email,
             booked_at_utc |-> bookings[i].booked_at]]

GetBookingsApi(email) ==
    /\ out' = IF LoadFails(file)
              THEN Out("get_bookings_api", email, "500", <<>>)
              ELSE Out("get_bookings_api", email, "200",
                       get_bookings_api(classes, file, email))
    /\ UNCHANGED <<classes, bookingsTbl, file, now, bk, st, resp, acked, nreq>>

\* WHERE b.email = ?  (TEXT equality, BINARY collation)
SqlEmailEquals(stored, email) == stored = email

\* ORDER BY b.booked_at_utc DESC; rows with equal keys stay in rowid order
BookedAtDescLess(a, b) ==
    \/ TextLess(b.booked_at_utc, a.booked_at_utc)
    \/ (a.booked_at_utc = b.booked_at_utc /\ a.id < b.id)

RECURSIVE SortBookings(_)
SortBookings(S) ==
    IF S = {} THEN <<>>
    ELSE LET m == CHOOSE x \in S : \A y \in S \ {x} : BookedAtDescLess(x, y)
         IN  <<m>> \o SortBookings(S \ {m})

\* SELECT b.*, c.name, c.start_utc FROM bookings b JOIN classes c ...
list_bookings_by_email(cs, tbl, email) ==
    SortBookings({ [id |-> b.id, class_id |-> b.class_id, name |-> b.name,
                    email |-> b.email, booked_at_utc |-> b.booked_at_utc,
                    class_name |-> c.name, class_start_utc |-> c.start_utc] :
                   <<b, c>> \in { p \in Range(tbl) \X Range(cs) :
                                    /\ p[1].class_id = p[2].id
                                    /\ SqlEmailEquals(p[1].email, email) } })

ListBookingsByEmail(email) ==
    /\ out' = Out("list_bookings_by_email", email, "ok",
                  list_bookings_by_email(classes, bookingsTbl, email))
    /\ UNCHANGED <<classes, bookingsTbl, file, now, bk, st, resp, acked, nreq>>

\* the calls of one run are served at one instant, any of the clock's values
InitSeq ==
    /\ classes = insert_class(insert_class(<<>>, "Yoga", IsoFormat(StartA), 1),
                              "Zumba", IsoFormat(StartB), 2)
    /\ bookingsTbl = <<>>
    /\ file = AbsentFile
    /\ now \in 0..MaxNow
    /\ bk = [t \in BThreads |-> IdleBk]
    /\ st = [t \in SThreads |-> IdleSt]
    /\ resp = [t \in Threads |-> NoResp]
    /\ acked = <<>>
    /\ nreq = 0
    /\ out = NoOut

NextSeq ==
    \/ \E req \in Requests : BookClass(req)
    \/ \E a \in StoreArgs : CreateBooking(a)
    \/ \E email \in Emails : GetBookingsApi(email)
    \/ \E email \in Emails : ListBookingsByEmail(email)

SpecSeq == InitSeq /\ [][NextSeq]_vars

----------------------------------------------------------------------------
(* Seeding (seed_data.py) and the classes table                              *)

\* datetime.now(IST): the wall-clock reading of Asia/Kolkata
NowIst(now_utc) == now_utc + IstOffset

\* (now_ist + timedelta(days=d)).replace(hour=h, minute=0, ...), local reading
LocalAt(now_ist, d, h) == ((now_ist \div HalfHoursPerDay) + d) * HalfHoursPerDay + h * 2

\* to_utc: ensure_ist leaves the instant alone, astimezone(UTC) removes the offset
to_utc(local) == local - IstOffset

SeedList(now_utc) ==
    << <<"Yoga", LocalAt(NowIst(now_utc), 1, 9)>>,
       <<"Zumba", LocalAt(NowIst(now_utc), 1, 17)>>,
       <<"HIIT", LocalAt(NowIst(now_utc), 2, 7)>> >>

SeedNames == {"Yoga", "Zumba", "HIIT"}

\* clear_bookings: rewrites bookings.json as [] when the file exists
clear_bookings(f) == IF f.kind = "absent" THEN f ELSE JsonFile(<<>>)

\* `if force or name not in existing_names`
SeedInserts(force, name, existing_names) == force \/ name \notin existing_names

\* the loop of seed_classes over the first k entries of the list
RECURSIVE SeedLoop(_, _, _, _, _)
SeedLoop(cs, todo, k, force, existing_names) ==
    IF k = 0 THEN cs
    ELSE LET before == SeedLoop(cs, todo, k - 1, force, existing_names)
             name == todo[k][1]
             ist_time == todo[k][2]
         IN  IF SeedInserts(force, name, existing_names)
             THEN insert_class(before, name, IsoFormat(to_utc(ist_time)),
                               SeedCapacity)
             ELSE before

seed_classes(cs, now_utc, force) ==
    LET existing_names == {c.name : c \in Range(list_classes(cs))}
    IN  SeedLoop(cs, SeedList(now_utc), Len(SeedList(now_utc)), force, existing_names)

SeedClasses(force) ==
    /\ Len(seed_classes(classes, now, force)) <= MaxClasses
    /\ classes' = seed_classes(classes, now, force)
    /\ file' = IF force THEN clear_bookings(file) ELSE file
    /\ out' = Out("seed_classes", <<force>>, "ok", <<>>)
    /\ UNCHANGED <<bookingsTbl, now, bk, st, resp, acked, nreq>>

ClassNames == {"Yoga", "Spin"}
StartC == 3
Starts == {StartA, StartB, StartC}
Capacities == {2}

InsertClass(name, start, capacity) ==
    /\ Len(classes) < MaxClasses
    /\ classes' = insert_class(classes, name, IsoFormat(start), capacity)
    /\ out' = Out("insert_class", <<name>>, "ok", <<Len(classes) + 1>>)
    /\ UNCHANGED <<bookingsTbl, file, now, bk, st, resp, acked, nreq>>

ListClasses ==
    /\ out' = Out("list_classes", <<>>, "ok", list_classes(classes))
    /\ UNCHANGED <<classes, bookingsTbl, file, now, bk, st, resp, acked, nreq>>

TickSeed ==
    /\ now < MaxNow
    /\ now' = now + 1
    /\ out' = NoOut
    /\ UNCHANGED <<classes, bookingsTbl, file, bk, st, resp, acked, nreq>>

\* after init_db on a fresh booking.db
InitSeed ==
    /\ classes = <<>>
    /\ bookingsTbl = <<>>
    /\ file = AbsentFile
    /\ now = 0
    /\ bk = [t \in BThreads |-> IdleBk]
    /\ st = [t \in SThreads |-> IdleSt]
    /\ resp = [t \in Threads |-> NoResp]
    /\ acked = <<>>
    /\ nreq = 0
    /\ out = NoOut

NextSeed ==
    \/ \E name \in ClassNames, start \in Starts, capacity \in Capacities :
            InsertClass(name, start, capacity)
    \/ \E force \in BOOLEAN : SeedClasses(force)
    \/ ListClasses
    \/ TickSeed

SpecSeed == InitSeed /\ [][NextSeed]_vars

----------------------------------------------------------------------------
(* Properties                                                                *)

ClassExists(class_id) == \E c \in Range(classes) : c.id = class_id
ClassById(class_id) == CHOOSE c \in Range(classes) : c.id = class_id

\* the bookings a reader of bookings.json gets (none from a malformed file)
FileRecords == load_bookings(file)

Occurrences(s, r) == Cardinality({i \in 1..Len(s) : s[i] = r})

AllIdle == \A t \in BThreads : bk[t].pc = "idle"

\* every worker thread served one request for class 1 (capacity 1, no
\* booking yet), none was turned away because the class had started
ParallelOnLastSlot ==
    /\ AllIdle
    /\ nreq = Cardinality(BThreads)
    /\ \A t \in BThreads : resp[t].class_id = 1 /\ resp[t].status \in {"200", "409", "500"}

\* C1: under any interleaving of POST /book requests the bookings recorded
\* for a class never exceed its capacity, and parallel requests for the one
\* slot of an empty class leave exactly one booking recorded.
C1_CapacityRespected ==
    /\ \A c \in Range(classes) : booked_count(FileRecords, c.id) <= c.capacity
    /\ ParallelOnLastSlot => (file.kind = "json" /\ booked_count(FileRecords, 1) = 1)

\* C2: create_booking admits atomically: the rows of a class never exceed its
\* capacity, two connections never both hold an uncommitted insert, and the
\* callers answered with a booking id for a class are no more than its capacity.
C2_AtomicAdmission ==
    /\ \A c \in Range(classes) : rows_for_class(bookingsTbl, c.id) <= c.capacity
    /\ \A t \in SThreads : \A u \in SThreads \ {t} :
          ~(st[t].lock \in {"reserved", "pending"} /\ st[u].lock \in {"reserved", "pending"})
    /\ \A c \in Range(classes) :
          Cardinality({t \in SThreads : resp[t].status = "ok" /\ resp[t].class_id = c.id})
              <= c.capacity

\* two callers raced for the single slot of class 1: both saw it free (neither
\* got OverflowError), one committed and the other was refused at its insert
C2_Witness ==
    \E t \in SThreads : \E u \in SThreads \ {t} :
        /\ resp[t] = Resp(1, "ok", 1)
        /\ resp[u] = Resp(1, "OperationalError", 0)
        /\ rows_for_class(bookingsTbl, 1) = 1

\* C3: no e-mail address (letter case ignored) ever has more than 2 bookings
\* recorded, a third attempt being rejected.
C3_AtMostTwoPerEmail ==
    \A e \in Emails :
        CountIn(FileRecords, LAMBDA b : Lower(b.email) = Lower(e)) <= 2

\* C4: a booking call for a class id that no class has fails with "not found"
\* (404 from book_class, ValueError from create_booking) and changes neither
\* the bookings table nor bookings.json.
C4_UnknownClassRejected ==
    [][ (/\ nreq' = nreq + 1
         /\ out'.op \in {"book_class", "create_booking"}
         /\ ~ClassExists(out'.arg.class_id))
        => (/\ out'.status = IF out'.op = "book_class" THEN "404" ELSE "ValueError"
            /\ file' = file
            /\ bookingsTbl' = bookingsTbl) ]_vars

\* an unknown class was asked for while both stores held bookings
C4_Witness ==
    /\ out.op = "book_class"
    /\ out.arg.class_id = NoSuchId
    /\ out.status = "404"
    /\ Len(FileRecords) > 0
    /\ Len(bookingsTbl) > 0

\* C5: every record of bookings.json has a row in the bookings table with the
\* same class_id, name and email (the insert precedes the log write).
C5_LogSubsetOfTable ==
    \A i \in 1..Len(FileRecords) :
        \E j \in 1..Len(bookingsTbl) :
            /\ bookingsTbl[j].class_id = FileRecords[i].class_id
            /\ bookingsTbl[j].name = FileRecords[i].name
            /\ bookingsTbl[j].email = FileRecords[i].email

\* C6: a booking that was answered with success stays recorded: once no
\* request is in progress, bookings.json holds every acknowledged record.
C6_NoBookingLost ==
    AllIdle =>
        \A i \in 1..Len(acked) :
            Occurrences(FileRecords, acked[i]) >= Occurrences(acked, acked[i])

\* C7: a lookup by e-mail returns every booking whose address differs from
\* the one asked for in letter case only, in get_bookings_api and in
\* list_bookings_by_email.
C7_CaseInsensitiveLookup ==
    /\ (out.op = "get_bookings_api" /\ out.status = "200") =>
          \A i \in 1..Len(FileRecords) :
              Lower(FileRecords[i].email) = Lower(out.arg) =>
                  \E k \in 1..Len(out.rows) :
                      /\ out.rows[k].class_id = FileRecords[i].class_id
                      /\ out.rows[k].email = FileRecords[i].email
                      /\ out.rows[k].booked_at_utc = FileRecords[i].booked_at
    /\ out.op = "list_bookings_by_email" =>
          \A j \in 1..Len(bookingsTbl) :
              Lower(bookingsTbl[j].email) = Lower(out.arg) =>
                  \E k \in 1..Len(out.rows) : out.rows[k].id = bookingsTbl[j].id

\* a request for a class that has started is answered 400 at once, whatever
\* the bookings of the class, and writes nothing
C8_PastRejectedStep ==
    \A t \in BThreads :
        (/\ bk[t].pc = "start"
         /\ bk'[t] # bk[t]
         /\ ClassExists(bk[t].req.class_id)
         /\ FromIsoFormat(ClassById(bk[t].req.class_id).start_utc) < now)
        => (/\ resp'[t] = Resp(bk[t].req.class_id, "400", 0)
            /\ bk'[t].pc = "idle"
            /\ file' = file
            /\ bookingsTbl' = bookingsTbl)

\* no recorded booking is later than the start of its class
C8_NoLateBooking ==
    \A i \in 1..Len(FileRecords) :
        FromIsoFormat(FileRecords[i].booked_at)
            <= FromIsoFormat(ClassById(FileRecords[i].class_id).start_utc)

\* C8: both halves: the 400 answer with nothing written, at every step that
\* serves a request for a started class, and no recorded booking later than
\* the start of its class, in every state.
C8_PastClassRejected == [][C8_PastRejectedStep]_vars /\ []C8_NoLateBooking

\* class 1 is full and has started: the request is answered 400, not 409
C8_Witness ==
    \E t \in BThreads :
        /\ resp[t] = Resp(1, "400", 0)
        /\ booked_count(FileRecords, 1) = 1
        /\ now > StartA

NameCount(cs, name) == CountIn(cs, LAMBDA c : c.name = name)

\* C9: seed_classes without force adds one class for each seed name that was
\* absent and nothing else; with force it leaves exactly one class of each
\* seed name and an empty booking log.
C9_SeedIdempotent ==
    [][ out'.op = "seed_classes" =>
          IF out'.arg[1]
          THEN /\ \A n \in SeedNames : NameCount(classes', n) = 1
               /\ load_bookings(file') = <<>>
          ELSE /\ \A n \in SeedNames :
                     NameCount(classes', n)
                         = IF NameCount(classes, n) = 0 THEN 1 ELSE NameCount(classes, n)
               /\ Len(classes') = Len(classes)
                     + Cardinality({n \in SeedNames : NameCount(classes, n) = 0})
               /\ SubSeq(classes', 1, Len(classes)) = classes ]_vars

\* C10: list_classes returns every class, ordered by start instant ascending,
\* whatever the order of insertion.
C10_ListedByStart ==
    out.op = "list_classes" =>
        /\ Len(out.rows) = Len(classes)
        /\ Range(out.rows) = Range(classes)
        /\ \A i \in 1..Len(out.rows) : \A j \in i..Len(out.rows) :
              FromIsoFormat(out.rows[i].start_utc) <= FromIsoFormat(out.rows[j].start_utc)

\* three classes with starts T1 < T2 < T3 inserted latest first
C10_Witness ==
    /\ out.op = "list_classes"
    /\ Len(out.rows) = 3
    /\ out.rows[1].id = 3 /\ out.rows[2].id = 2 /\ out.rows[3].id = 1
    /\ FromIsoFormat(out.rows[1].start_utc) < FromIsoFormat(out.rows[2].start_utc)
    /\ FromIsoFormat(out.rows[2].start_utc) < FromIsoFormat(out.rows[3].start_utc)

====
